---- MODULE Spec2Model ----
(***************************************************************************)
(* Echolon AI dashboard: the two Streamlit scripts of the repository.      *)
(*                                                                         *)
(*   dashboard.py  onboarding help, CSV upload with demo fallback, column  *)
(*                 selection, dynamic_ai_insights, charts and badges       *)
(*   app.py        CSV upload, benchmarking, what-if sliders, goals, notes *)
(*                                                                         *)
(* Streamlit re-executes a script top to bottom on every interaction; the  *)
(* script's variables are rebuilt by each run and only st.session_state    *)
(* survives from one run to the next.  Each script is modelled as a        *)
(* sequence of sections (pc / app_pc) followed by a rerun.                 *)
(*                                                                         *)
(* Numbers.  Cells of numeric columns are integers.  Means over columns of *)
(* one table are compared through their sums, ratios through cross         *)
(* multiplication.  Series.pct_change().mean() is kept in fixed point, in  *)
(* units of 1/10000 (so 5 % is 500), with NaN and +inf as separate kinds.  *)
(* The '% Diff' columns of the demo table are kept in tenths of a percent. *)
(***************************************************************************)
EXTENDS Integers, Sequences, FiniteSets, TLC

\* ------------------------------------------------------------------ bounds
\* most data rows of an uploaded CSV
MaxRows == 2
\* cells of an uploaded numeric column range over 0..MaxVal (scaled per column)
MaxVal == 1

\* ------------------------------------------------------------ small helpers
RECURSIVE SumSeq(_)
SumSeq(s) == IF s = <<>> THEN 0 ELSE Head(s) + SumSeq(Tail(s))

RECURSIVE MinSeq(_)
MinSeq(s) == IF Len(s) = 1 THEN s[1]
             ELSE LET m == MinSeq(Tail(s)) IN IF s[1] < m THEN s[1] ELSE m

Range(s) == {s[i] : i \in 1..Len(s)}

\* ------------------------------------------------------------------ tables
\* A DataFrame: column labels in order, one dtype per column, the number of
\* rows, and per column its cells (only numeric cells are kept; the cells of
\* object and datetime columns are never read by the scripts' arithmetic).
NoTable == [columns |-> <<>>, dtype |-> <<>>, nrows |-> 0, data |-> <<>>, bound |-> FALSE]

Has(df, name) == \E i \in 1..Len(df.columns) : df.columns[i] = name

ColIndex(df, name) == CHOOSE i \in 1..Len(df.columns) : df.columns[i] = name

Col(df, name) == df.data[ColIndex(df, name)]

IsNumeric(dt) == dt \in {"int64", "float64"}

\* working_df.select_dtypes(include=[np.number]).columns.tolist()
NumericCols(df) ==
    LET idx == SelectSeq([i \in 1..Len(df.columns) |-> i],
                         LAMBDA i : IsNumeric(df.dtype[i]))
    IN  [k \in 1..Len(idx) |-> df.columns[idx[k]]]

\* working_df[columns_selected]: the selected labels, a copy of their columns
SelectColumns(df, sel) ==
    LET idx == SelectSeq([i \in 1..Len(df.columns) |-> i],
                         LAMBDA i : df.columns[i] \in sel)
    IN  [columns |-> [k \in 1..Len(idx) |-> df.columns[idx[k]]],
         dtype   |-> [k \in 1..Len(idx) |-> df.dtype[idx[k]]],
         nrows   |-> df.nrows,
         data    |-> [k \in 1..Len(idx) |-> df.data[idx[k]]],
         bound   |-> TRUE]

\* ---------------------------------------------------------------- demo data
\* np.random.seed(9) makes the demo table the same table in every run; these
\* are the values the seeded generator yields.
user_revenue == <<110828, 90501, 112584, 95014, 115725, 94673, 120230>>
user_expenses == <<87300, 73099, 86602, 60481, 89259, 69420, 66256>>
industry_avg_revenue == <<98348, 83575, 106593, 87428, 99933, 81760, 113627>>
industry_avg_expenses == <<96791, 83043, 96481, 67106, 99503, 77997, 72634>>
user_customers == <<3408, 4725, 1443, 3106, 4489, 4789, 3781>>
industry_ranking == <<2, 2, 1, 2, 1, 1, 2>>
pct_diff_revenue == <<127, 83, 56, 87, 158, 158, 58>>
pct_diff_expenses == <<-98, -120, -102, -99, -103, -110, -88>>

default_df ==
    [columns |-> <<"Date", "Your Revenue", "Your Expenses", "Industry Revenue",
                   "Industry Expenses", "Customers", "% Diff Revenue",
                   "% Diff Expenses", "Revenue Rank">>,
     dtype   |-> <<"datetime64", "int64", "int64", "float64", "float64", "int64",
                   "float64", "float64", "int64">>,
     nrows   |-> Len(user_revenue),
     data    |-> << <<>>, user_revenue, user_expenses, industry_avg_revenue,
                   industry_avg_expenses, user_customers, pct_diff_revenue,
                   pct_diff_expenses, industry_ranking >>,
     bound   |-> TRUE]

\* ------------------------------------------------------------------ uploads
\* The layouts of the CSV files offered to the uploader.  pd.read_csv leaves
\* text (and unparsed dates) as object columns and reads digits as int64.
Schemas ==
    { [columns |-> <<"Date", "Your Revenue", "Industry Revenue">>,
       dtype   |-> <<"object", "int64", "int64">>],
      [columns |-> <<"Your Revenue", "Your Expenses", "Industry Expenses">>,
       dtype   |-> <<"int64", "int64", "int64">>],
      [columns |-> <<"Customers", "Revenue Rank">>,
       dtype   |-> <<"int64", "int64">>],
      [columns |-> <<"your revenue", "CUSTOMERS">>,
       dtype   |-> <<"int64", "int64">>],
      [columns |-> <<"Region", "Customers">>,
       dtype   |-> <<"object", "int64">>] }

\* the cell written for the abstract value v of a column: customer counts are
\* in thousands, ranks start at 1
Cell(name, v) ==
    IF name \in {"Customers", "CUSTOMERS"} THEN 5000 * v
    ELSE IF name = "Revenue Rank" THEN 1 + v
    ELSE v

\* The table pd.read_csv returns for a layout with n data rows whose numeric
\* cells are chosen by d: a header-only file gives an empty frame whose columns
\* are all object.
NumericIdx(schema) == {i \in 1..Len(schema.columns) : IsNumeric(schema.dtype[i])}

CellChoices(schema, n) == [NumericIdx(schema) -> [1..n -> 0..MaxVal]]

CsvTable(schema, n, d) ==
    LET k == Len(schema.columns)
    IN  IF n = 0
        THEN [columns |-> schema.columns,
              dtype   |-> [i \in 1..k |-> "object"],
              nrows   |-> 0,
              data    |-> [i \in 1..k |-> <<>>],
              bound   |-> TRUE]
        ELSE [columns |-> schema.columns,
              dtype   |-> schema.dtype,
              nrows   |-> n,
              data    |-> [i \in 1..k |->
                             IF i \in NumericIdx(schema)
                             THEN [r \in 1..n |-> Cell(schema.columns[i], d[i][r])]
                             ELSE <<>>],
              bound   |-> TRUE]

\* what st.file_uploader returns: None, a file pd.read_csv cannot parse (empty
\* file, ragged lines, wrong encoding), or a CSV file with its content
NoFile == [kind |-> "none", table |-> NoTable]
BadCsv == [kind |-> "bad", table |-> NoTable]
CsvFile(table) == [kind |-> "csv", table |-> table]

\* pd.read_csv(uploaded_file): the parsed frame, or the exception it raises
read_csv(file) ==
    IF file.kind = "csv" THEN [raised |-> "none", df |-> file.table]
    ELSE [raised |-> "ParserError", df |-> NoTable]

\* ------------------------------------------------------- series arithmetic
\* Series.mean() of a numeric column compared with another column of the same
\* frame; the mean of an empty column is NaN and every comparison with it False
MeanGt(x, y) == Len(x) > 0 /\ Len(y) > 0 /\ SumSeq(x) * Len(y) > SumSeq(y) * Len(x)

\* Series.pct_change().mean(): the first change is NaN and skipped, a change
\* from 0 is +inf (to a positive value) or NaN (to 0); cells are >= 0
PctChangeMean(x) ==
    LET n     == Len(x)
        steps == 2..n
        infs  == {i \in steps : x[i-1] = 0 /\ x[i] > 0}
        fin   == {i \in steps : x[i-1] # 0}
        terms == [i \in 1..n |-> IF i \in fin
                                 THEN ((x[i] - x[i-1]) * 10000) \div x[i-1] ELSE 0]
    IN  IF infs # {} THEN [kind |-> "inf", v |-> 0]
        ELSE IF fin = {} THEN [kind |-> "nan", v |-> 0]
        ELSE [kind |-> "num", v |-> SumSeq(terms) \div Cardinality(fin)]

\* m * scale > bound and m * scale < bound for such a mean, scale/bound in 1/10000
FloatGt(m, bound) == m.kind = "inf" \/ (m.kind = "num" /\ m.v > bound)
FloatLt(m, bound) == m.kind = "num" /\ m.v < bound

\* ------------------------------------------------------ dynamic_ai_insights
TrendUp == "Revenue is trending up. Keep the momentum!"
TrendDown == "Revenue is trending down. Investigate possible causes."
Outperforms == "Your average revenue outperforms the industry. Great job!"
IndustryHigher == "Industry revenue is higher. Explore changes to pricing, marketing, or products."
LowRevenue == "Unusually low revenue detected in some period(s). Review those for anomalies."
ExpensesExcellent == "Excellent expense control: Expenses < 70% of revenue."
ExpensesUnder80 == "Expenses under 80% of revenue. Maintain or improve efficiency."
ExpensesExceed == "Expenses exceed revenue! Immediate cost review recommended."
ExpensesBelowIndustry == "Your expenses are below industry average. Well done!"
ExpensesAboveIndustry == "Your expenses are above industry average. Look for cost savings."
CustomersGrowing == "Growing customer base. Continue strong outreach."
CustomersDeclining == "Customer #s declining. Check retention/lead gen."
CustomersHigh == "High customer base. Maybe segment for personalized offers."
CustomersLow == "Relatively low customer base - prioritize acquisition tactics."
UploadMore == "Upload more data for actionable, dynamic insights."

\* ----- Revenue Metrics -----
RevenueInsights(df) ==
    IF Has(df, "Your Revenue") /\ Has(df, "Industry Revenue")
    THEN LET rev   == Col(df, "Your Revenue")
             ind   == Col(df, "Industry Revenue")
             trend == PctChangeMean(rev)
         IN  (IF df.nrows > 1 /\ FloatGt(trend, 500) THEN <<TrendUp>>
              ELSE IF df.nrows > 1 /\ FloatLt(trend, -500) THEN <<TrendDown>>
              ELSE <<>>)
             \o (IF MeanGt(rev, ind) THEN <<Outperforms>> ELSE <<IndustryHigher>>)
             \o (IF Len(rev) > 0 /\ 10 * Len(rev) * MinSeq(rev) < 7 * SumSeq(rev)
                 THEN <<LowRevenue>> ELSE <<>>)
    ELSE <<>>

\* ----- Expenses Metrics -----
ExpenseRatioInsight(exp_sum, rev_sum) ==
    IF rev_sum > 0
    THEN IF 10 * exp_sum < 7 * rev_sum THEN <<ExpensesExcellent>>
         ELSE IF 10 * exp_sum < 8 * rev_sum THEN <<ExpensesUnder80>>
         ELSE IF exp_sum > rev_sum THEN <<ExpensesExceed>>
         ELSE <<>>
    ELSE <<>>

IndustryExpensesInsight(exp, ind) ==
    IF MeanGt(ind, exp) THEN <<ExpensesBelowIndustry>> ELSE <<ExpensesAboveIndustry>>

ExpenseInsights(df) ==
    IF Has(df, "Your Expenses") /\ Has(df, "Your Revenue")
    THEN ExpenseRatioInsight(SumSeq(Col(df, "Your Expenses")),
                             SumSeq(Col(df, "Your Revenue")))
         \o (IF Has(df, "Industry Expenses")
             THEN IndustryExpensesInsight(Col(df, "Your Expenses"),
                                          Col(df, "Industry Expenses"))
             ELSE <<>>)
    ELSE <<>>

\* ---- Customers ----
CustomerInsights(df) ==
    IF Has(df, "Customers")
    THEN LET cust  == Col(df, "Customers")
             trend == PctChangeMean(cust)
         IN  (IF df.nrows > 1 /\ FloatGt(trend, 500) THEN <<CustomersGrowing>>
              ELSE IF df.nrows > 1 /\ FloatLt(trend, -500) THEN <<CustomersDeclining>>
              ELSE <<>>)
             \o (IF Len(cust) > 0 /\ SumSeq(cust) > 4000 * Len(cust) THEN <<CustomersHigh>>
                 ELSE IF Len(cust) > 0 /\ SumSeq(cust) < 1500 * Len(cust) THEN <<CustomersLow>>
                 ELSE <<>>)
    ELSE <<>>

\* mutant of WithFallback: the closing 'if not insights' fallback is left out
WithFallback_Dropped(found) == found

\* ----- General -----
WithFallback(found) == IF found = <<>> THEN <<UploadMore>> ELSE found

dynamic_ai_insights(df) ==
    WithFallback(RevenueInsights(df) \o ExpenseInsights(df) \o CustomerInsights(df))

\* ------------------------------------------------- charts and achievements
TopPerformer == "Top Industry Performer!"
RevenueStreak == "10%+ Revenue Growth Streak!"
BadgeUnder80 == "Expenses under 80% of Revenue"
BadgeExceed == "Expenses exceed revenue (monitor!)"
CustomerGrowth == "10%+ Customer Growth"

\* the two go.Bar traces index filtered_df by the first two numeric columns of
\* working_df: a label that was deselected raises KeyError
ChartRaises(numeric, fdf) ==
    Len(numeric) >= 2 /\ (~Has(fdf, numeric[1]) \/ ~Has(fdf, numeric[2]))

\* expense_ratio of the badge block takes 2 when the revenue sum is not positive
ExpenseBadge(exp_sum, rev_sum) ==
    IF rev_sum > 0
    THEN IF 10 * exp_sum < 8 * rev_sum THEN <<BadgeUnder80>>
         ELSE IF exp_sum > rev_sum THEN <<BadgeExceed>>
         ELSE <<>>
    ELSE <<BadgeExceed>>

Achievements(fdf) ==
    (IF Has(fdf, "Revenue Rank") /\ Len(Col(fdf, "Revenue Rank")) > 0
        /\ MinSeq(Col(fdf, "Revenue Rank")) = 1
     THEN <<TopPerformer>> ELSE <<>>)
    \o (IF Has(fdf, "Your Revenue") /\ FloatGt(PctChangeMean(Col(fdf, "Your Revenue")), 1000)
        THEN <<RevenueStreak>> ELSE <<>>)
    \o (IF Has(fdf, "Your Expenses") /\ Has(fdf, "Your Revenue")
        THEN ExpenseBadge(SumSeq(Col(fdf, "Your Expenses")), SumSeq(Col(fdf, "Your Revenue")))
        ELSE <<>>)
    \o (IF Has(fdf, "Customers") /\ FloatGt(PctChangeMean(Col(fdf, "Customers")), 1000)
        THEN <<CustomerGrowth>> ELSE <<>>)

\* min(100, int(len(filtered_df)/10*100))
CompletionRatio(fdf) == IF fdf.nrows * 10 > 100 THEN 100 ELSE fdf.nrows * 10

\* ------------------------------------------------------------------- state
VARIABLES
    \* dashboard.py
    session_state,      \* st.session_state: a set of <<key, value>> pairs
    pc,                 \* the section of dashboard.py about to run
    help_clicked,       \* st.button("Show onboarding / help") in this run
    onboarding_shown,   \* show_onboarding() was called in this run
    uploaded_file,      \* st.file_uploader(...) in this run
    working_df,
    numeric_cols,
    columns_selected,
    filtered_df,
    insights,           \* the tips rendered with st.info
    achievements,
    completion_ratio,   \* -1 until st.progress is drawn
    notices,            \* st.success / st.info / st.warning / st.error boxes
    error,              \* the exception that ended the run, or "none"
    \* app.py
    app_pc,
    app_file,
    df,
    ad_spend,
    price_change,
    churn_change,
    projected,          \* the y values of the 'Projected Revenue' chart
    app_notices,
    app_error

dash_vars == <<session_state, pc, help_clicked, onboarding_shown, uploaded_file,
               working_df, numeric_cols, columns_selected, filtered_df, insights,
               achievements, completion_ratio, notices, error>>
app_vars == <<app_pc, app_file, df, ad_spend, price_change, churn_change,
              projected, app_notices, app_error>>
vars == <<dash_vars, app_vars>>

\* ----------------------------------------------------------- session store
SessionHas(ss, key) == \E p \in ss : p[1] = key
SessionGet(ss, key) == (CHOOSE p \in ss : p[1] = key)[2]
SessionSet(ss, key, value) == {p \in ss : p[1] # key} \cup {<<key, value>>}

\* ------------------------------------------------------------ dashboard.py
\* a fresh execution of the script: no script variable is bound yet
DashFresh ==
    /\ pc = "session"
    /\ help_clicked = FALSE
    /\ onboarding_shown = FALSE
    /\ uploaded_file = NoFile
    /\ working_df = NoTable
    /\ numeric_cols = <<>>
    /\ columns_selected = {}
    /\ filtered_df = NoTable
    /\ insights = <<>>
    /\ achievements = <<>>
    /\ completion_ratio = -1
    /\ notices = {}
    /\ error = "none"

\* if 'help_shown' not in st.session_state: st.session_state['help_shown'] = False
InitHelpFlag(ss) ==
    IF SessionHas(ss, "help_shown") THEN ss ELSE SessionSet(ss, "help_shown", FALSE)

DashSession ==
    /\ pc = "session"
    /\ session_state' = InitHelpFlag(session_state)
    /\ pc' = "sidebar"
    /\ UNCHANGED <<help_clicked, onboarding_shown, uploaded_file, working_df,
                   numeric_cols, columns_selected, filtered_df, insights,
                   achievements, completion_ratio, notices, error>>
    /\ UNCHANGED app_vars

\* mutant of SidebarHelp: the help is shown but 'help_shown' is never set to True
SidebarHelp_NeverMarks(ss, clicked) ==
    [shown |-> clicked \/ ~SessionGet(ss, "help_shown"), session |-> ss]

\* if st.button(...) or not st.session_state['help_shown']:
\*     show_onboarding(); st.session_state['help_shown'] = True
SidebarHelp(ss, clicked) ==
    IF clicked \/ ~SessionGet(ss, "help_shown")
    THEN [shown |-> TRUE, session |-> SessionSet(ss, "help_shown", TRUE)]
    ELSE [shown |-> FALSE, session |-> ss]

DashSidebar(clicked) ==
    /\ pc = "sidebar"
    /\ help_clicked' = clicked
    /\ onboarding_shown' = SidebarHelp(session_state, clicked).shown
    /\ session_state' = SidebarHelp(session_state, clicked).session
    /\ pc' = "upload"
    /\ UNCHANGED <<uploaded_file, working_df, numeric_cols, columns_selected,
                   filtered_df, insights, achievements, completion_ratio, notices, error>>
    /\ UNCHANGED app_vars

\* mutant of LoadWorkingDf: the except branch reports the error and binds no
\* fallback table
LoadWorkingDf_NoFallback(file) ==
    IF file.kind = "csv"
    THEN [df |-> file.table, notice |-> "CSV loaded successfully!"]
    ELSE IF file.kind = "bad"
    THEN [df |-> NoTable, notice |-> "Error loading CSV"]
    ELSE [df |-> default_df,
          notice |-> "Using demo data. Upload your own CSV to analyze custom data."]

\* Initialize working dataframe: the upload, or the demo table when there is
\* no file or the file does not parse
LoadWorkingDf(file) ==
    IF file.kind # "none"
    THEN LET r == read_csv(file)
         IN  IF r.raised = "none"
             THEN [df |-> r.df, notice |-> "CSV loaded successfully!"]
             ELSE [df |-> default_df, notice |-> "Error loading CSV"]
    ELSE [df |-> default_df,
          notice |-> "Using demo data. Upload your own CSV to analyze custom data."]

DashUpload(file) ==
    /\ pc = "upload"
    /\ uploaded_file' = file
    /\ working_df' = LoadWorkingDf(file).df
    /\ notices' = notices \cup {LoadWorkingDf(file).notice}
    /\ numeric_cols' = NumericCols(LoadWorkingDf(file).df)
    /\ pc' = "render"
    /\ UNCHANGED <<session_state, help_clicked, onboarding_shown, columns_selected,
                   filtered_df, insights, achievements, completion_ratio, error>>
    /\ UNCHANGED app_vars

NotEnoughNumeric == "Not enough numeric columns for charting/gamification."

\* column selection, AI insights, charts and badges, feedback, free-forever blurb
DashRender(sel) ==
    /\ pc = "render"
    /\ columns_selected' = sel
    /\ filtered_df' = SelectColumns(working_df, sel)
    /\ insights' = dynamic_ai_insights(SelectColumns(working_df, sel))
    /\ IF ChartRaises(numeric_cols, SelectColumns(working_df, sel))
       THEN /\ error' = "KeyError"
            /\ pc' = "error"
            /\ UNCHANGED <<achievements, completion_ratio, notices>>
       ELSE /\ error' = "none"
            /\ pc' = "done"
            /\ IF Len(numeric_cols) >= 2
               THEN /\ achievements' = Achievements(SelectColumns(working_df, sel))
                    /\ completion_ratio' = CompletionRatio(SelectColumns(working_df, sel))
                    /\ UNCHANGED notices
               ELSE /\ notices' = notices \cup {NotEnoughNumeric}
                    /\ UNCHANGED <<achievements, completion_ratio>>
    /\ UNCHANGED <<session_state, help_clicked, onboarding_shown, uploaded_file,
                   working_df, numeric_cols>>
    /\ UNCHANGED app_vars

\* the next interaction: the script is executed again from the top, with only
\* st.session_state carried over
DashRerun ==
    /\ pc \in {"done", "error"}
    /\ pc' = "session"
    /\ help_clicked' = FALSE
    /\ onboarding_shown' = FALSE
    /\ uploaded_file' = NoFile
    /\ working_df' = NoTable
    /\ numeric_cols' = <<>>
    /\ columns_selected' = {}
    /\ filtered_df' = NoTable
    /\ insights' = <<>>
    /\ achievements' = <<>>
    /\ completion_ratio' = -1
    /\ notices' = {}
    /\ error' = "none"
    /\ UNCHANGED session_state
    /\ UNCHANGED app_vars

\* ------------------------------------------------------------------- app.py
AppFresh ==
    /\ app_pc = "upload"
    /\ app_file = NoFile
    /\ df = NoTable
    /\ ad_spend = 0
    /\ price_change = 0
    /\ churn_change = 0
    /\ projected = <<>>
    /\ app_notices = {}
    /\ app_error = "none"

\* 1. Upload & Data Integration: pd.read_csv is not guarded
AppUpload(file) ==
    /\ app_pc = "upload"
    /\ app_file' = file
    /\ IF file.kind = "none"
       THEN /\ app_pc' = "benchmark"
            /\ UNCHANGED <<df, app_notices, app_error>>
       ELSE IF read_csv(file).raised = "none"
       THEN /\ df' = read_csv(file).df
            /\ app_notices' = app_notices \cup {"Preview of uploaded data:"}
            /\ app_pc' = "benchmark"
            /\ UNCHANGED app_error
       ELSE /\ app_error' = read_csv(file).raised
            /\ app_pc' = "error"
            /\ UNCHANGED <<df, app_notices>>
    /\ UNCHANGED <<ad_spend, price_change, churn_change, projected>>
    /\ UNCHANGED dash_vars

\* 2. Industry Benchmarking
AppBenchmark ==
    /\ app_pc = "benchmark"
    /\ app_notices' = app_notices \cup
          {IF df.bound THEN "Sample benchmarking (static example):"
                       ELSE "Upload data to see benchmarking."}
    /\ app_pc' = "scenario"
    /\ UNCHANGED <<app_file, df, ad_spend, price_change, churn_change, projected, app_error>>
    /\ UNCHANGED dash_vars

\* the values a slider is moved to: its minimum, its default and its maximum
AdSpendValues == {-50, 0, 50}
PriceValues == {-25, 0, 25}
ChurnValues == {-10, 0, 10}

\* px.line(x=[0,1,2], y=[100,110,105], title='Projected Revenue')
ProjectedRevenue(table, ad, price, churn) == <<100, 110, 105>>

\* 3. What If? Scenario Modeling
AppScenario(ad, price, churn) ==
    /\ app_pc = "scenario"
    /\ ad_spend' = ad
    /\ price_change' = price
    /\ churn_change' = churn
    /\ IF df.bound
       THEN /\ projected' = ProjectedRevenue(df, ad, price, churn)
            /\ UNCHANGED app_notices
       ELSE /\ app_notices' = app_notices \cup {"Upload data for scenario modeling."}
            /\ UNCHANGED projected
    /\ app_pc' = "goals"
    /\ UNCHANGED <<app_file, df, app_error>>
    /\ UNCHANGED dash_vars

\* 4. Goal Tracking, 5. AI Insights, 6. Collaboration
AppGoals(save_note) ==
    /\ app_pc = "goals"
    /\ app_notices' = app_notices \cup
          (IF save_note THEN {"Note saved (not persistent)."} ELSE {})
    /\ app_pc' = "done"
    /\ UNCHANGED <<app_file, df, ad_spend, price_change, churn_change, projected, app_error>>
    /\ UNCHANGED dash_vars

AppRerun ==
    /\ app_pc \in {"done", "error"}
    /\ app_pc' = "upload"
    /\ app_file' = NoFile
    /\ df' = NoTable
    /\ ad_spend' = 0
    /\ price_change' = 0
    /\ churn_change' = 0
    /\ projected' = <<>>
    /\ app_notices' = {}
    /\ app_error' = "none"
    /\ UNCHANGED dash_vars

\* ----------------------------------------------------------- specifications
Init == session_state = {} /\ DashFresh /\ AppFresh

\* (the section guard stands before each input's quantifier)
NextDash ==
    \/ DashSession
    \/ pc = "sidebar" /\ \E clicked \in BOOLEAN : DashSidebar(clicked)
    \/ pc = "upload" /\ \E file \in {NoFile, BadCsv} : DashUpload(file)
    \/ pc = "upload" /\
          \E schema \in Schemas, n \in 0..MaxRows : \E d \in CellChoices(schema, n) :
             DashUpload(CsvFile(CsvTable(schema, n, d)))
    \/ pc = "render" /\ \E sel \in SUBSET Range(working_df.columns) : DashRender(sel)
    \/ DashRerun

NextApp ==
    \/ app_pc = "upload" /\ \E file \in {NoFile, BadCsv} : AppUpload(file)
    \/ app_pc = "upload" /\
          \E schema \in Schemas, n \in 0..MaxRows : \E d \in CellChoices(schema, n) :
             AppUpload(CsvFile(CsvTable(schema, n, d)))
    \/ AppBenchmark
    \/ app_pc = "scenario" /\
          \E ad \in AdSpendValues, price \in PriceValues, churn \in ChurnValues :
             AppScenario(ad, price, churn)
    \/ app_pc = "goals" /\ \E save_note \in BOOLEAN : AppGoals(save_note)
    \/ AppRerun

\* a session of dashboard.py
SpecDash == Init /\ [][NextDash]_vars
\* a session of app.py
SpecApp == Init /\ [][NextApp]_vars

\* =================================================================== claims
Ran == pc \in {"done", "error"}

\* sums over filtered_df, 0 for a column that is not selected
SumOf(name) == IF Has(filtered_df, name) THEN SumSeq(Col(filtered_df, name)) ELSE 0
CellsOf(name) == IF Has(filtered_df, name) THEN Col(filtered_df, name) ELSE <<>>
Count(seq, set) == Cardinality({i \in 1..Len(seq) : seq[i] \in set})

\* C1: in app.py and in dashboard.py a CSV that does not parse never aborts
\* the run: the run continues with the demo table or a visible warning.
C1_ParseFailureCaught ==
    /\ app_file.kind = "bad" => app_pc # "error" /\ app_error = "none"
    /\ uploaded_file.kind = "bad" /\ pc # "upload" =>
          error # "ParserError" /\ working_df = default_df

\* C2: in dashboard.py no choice of columns in the multiselect is fatal: the
\* render pass of every loaded table and every subset of its columns reaches
\* its end.
C2_MissingColumnsNeverFatal == pc # "error" /\ error = "none"

\* C3: the projected revenue shown for an uploaded table scales with the
\* 'Price % Change' slider: the projections of two runs on the same table that
\* differ only in the price are in the ratio (1 + p1/100) : (1 + p2/100).
C3_ProjectedScalesWithPrice ==
    app_pc \in {"goals", "done"} /\ df.bound =>
        \A p \in PriceValues : \A i \in 1..Len(projected) :
            ProjectedRevenue(df, ad_spend, p, churn_change)[i] * (100 + price_change)
                = projected[i] * (100 + p)

\* C4: the table is created fresh by every run: no table is bound when a run
\* starts, the working table of a run is the content of that run's upload, or
\* the demo table when there is no file or it does not parse, and the session
\* store holds nothing but the help flag.
C4_TableFreshEachRun ==
    /\ \A p \in session_state : p[1] = "help_shown" /\ p[2] \in BOOLEAN
    /\ pc \in {"session", "sidebar", "upload"} =>
          working_df = NoTable /\ filtered_df = NoTable
    /\ pc \in {"render", "done", "error"} =>
          working_df = (IF uploaded_file.kind = "csv" THEN uploaded_file.table
                        ELSE default_df)

\* a later run (the help was not shown again) whose upload did not parse and
\* that worked on the demo table to its end
C4_Witness ==
    /\ pc = "done"
    /\ ~onboarding_shown
    /\ uploaded_file.kind = "bad"
    /\ working_df = default_df
    /\ filtered_df.bound

\* ---- C5: the column auto-mapper as the specification words it
UpperCase == <<"A", "B", "C", "D", "E", "F", "G", "H", "I", "J", "K", "L", "M",
               "N", "O", "P", "Q", "R", "S", "T", "U", "V", "W", "X", "Y", "Z">>
LowerCase == <<"a", "b", "c", "d", "e", "f", "g", "h", "i", "j", "k", "l", "m",
               "n", "o", "p", "q", "r", "s", "t", "u", "v", "w", "x", "y", "z">>

\* the characters of the column labels of the uploads
Spell(name) ==
    CASE name = "Customers" -> <<"C", "u", "s", "t", "o", "m", "e", "r", "s">>
      [] name = "CUSTOMERS" -> <<"C", "U", "S", "T", "O", "M", "E", "R", "S">>
      [] name = "your revenue" -> <<"y", "o", "u", "r", " ", "r", "e", "v", "e", "n", "u", "e">>
      [] name = "Your Revenue" -> <<"Y", "o", "u", "r", " ", "R", "e", "v", "e", "n", "u", "e">>
      [] name = "Industry Revenue" -> <<"I", "n", "d", "u", "s", "t", "r", "y", " ",
                                        "R", "e", "v", "e", "n", "u", "e">>
      [] name = "Your Expenses" -> <<"Y", "o", "u", "r", " ", "E", "x", "p", "e", "n", "s", "e", "s">>
      [] name = "Industry Expenses" -> <<"I", "n", "d", "u", "s", "t", "r", "y", " ",
                                         "E", "x", "p", "e", "n", "s", "e", "s">>
      [] name = "Revenue Rank" -> <<"R", "e", "v", "e", "n", "u", "e", " ", "R", "a", "n", "k">>
      [] name = "Region" -> <<"R", "e", "g", "i", "o", "n">>
      [] name = "Date" -> <<"D", "a", "t", "e">>
      [] name = "% Diff Revenue" -> <<"%", " ", "D", "i", "f", "f", " ",
                                      "R", "e", "v", "e", "n", "u", "e">>
      [] name = "% Diff Expenses" -> <<"%", " ", "D", "i", "f", "f", " ",
                                       "E", "x", "p", "e", "n", "s", "e", "s">>

\* str.lower()
LowerChar(c) ==
    IF \E k \in 1..Len(UpperCase) : UpperCase[k] = c
    THEN LowerCase[CHOOSE k \in 1..Len(UpperCase) : UpperCase[k] = c]
    ELSE c
Lower(chars) == [i \in 1..Len(chars) |-> LowerChar(chars[i])]

\* keyword in label.lower()
Contains(chars, keyword) ==
    \E i \in 0..(Len(chars) - Len(keyword)) :
        SubSeq(chars, i + 1, i + Len(keyword)) = keyword

CustomersKeyword == <<"c", "u", "s", "t", "o", "m", "e", "r", "s">>

\* the first selected column the keyword recognises, 0 when there is none
FirstMatch(fdf, keyword) ==
    LET hits == {i \in 1..Len(fdf.columns) :
                    Contains(Lower(Spell(fdf.columns[i])), keyword)}
    IN  IF hits = {} THEN 0 ELSE CHOOSE i \in hits : \A j \in hits : i <= j

\* C5: a column whose label contains the keyword in any letter case is
\* treated as the canonical metric (here: the customer count, whose average
\* decides the customer-base insight), the first match winning; without a
\* match the metric is absent and no customer insight is shown.
C5_CaseInsensitiveMatch ==
    pc = "done" =>
        LET m == FirstMatch(filtered_df, CustomersKeyword)
        IN  IF m = 0
            THEN Count(insights, {CustomersHigh, CustomersLow}) = 0
            ELSE LET cust == filtered_df.data[m]
                 IN  /\ Len(cust) > 0 /\ SumSeq(cust) < 1500 * Len(cust)
                          => Count(insights, {CustomersLow}) = 1
                     /\ Len(cust) > 0 /\ SumSeq(cust) > 4000 * Len(cust)
                          => Count(insights, {CustomersHigh}) = 1

\* ---- C6
HelpIsTrue == <<"help_shown", TRUE>> \in session_state
HelpIsFalse == <<"help_shown", FALSE>> \in session_state

\* the flag is False only between its creation and the first display, the store
\* is empty only before the first run's first statement
HelpFlagInv ==
    /\ session_state = {} => pc = "session"
    /\ HelpIsFalse => pc = "sidebar" /\ ~onboarding_shown
    /\ pc \notin {"session", "sidebar"} => HelpIsTrue

\* C6: the onboarding text is shown automatically by the first run; 'help_shown'
\* is False only before that display and once True it stays True; every later
\* run shows the text if and only if the help button was clicked in that run.
C6_OnboardingFirstTime ==
    [][ /\ HelpFlagInv /\ HelpFlagInv'
        /\ HelpIsTrue => HelpIsTrue'
        /\ pc = "sidebar" /\ pc' = "upload" =>
              IF HelpIsFalse THEN onboarding_shown'
              ELSE onboarding_shown' <=> help_clicked' ]_vars

\* a later run in which the button was not clicked and no help was shown
C6_Witness ==
    /\ pc = "upload"
    /\ HelpIsTrue
    /\ ~help_clicked
    /\ ~onboarding_shown

\* C7: expense messages are truthful and exclusive: 'exceed revenue' only when
\* the expense sum is greater than the revenue sum, 'under 80%' / '< 70%' only
\* below that ratio, at most one expense-ratio insight and one expense badge,
\* and none of either kind when the revenue sum is not positive.
C7_ExpenseMessagesTruthful ==
    pc = "done" =>
        LET exp_sum == SumOf("Your Expenses")
            rev_sum == SumOf("Your Revenue")
            said(msgs) == Count(insights, msgs) + Count(achievements, msgs)
        IN  /\ said({ExpensesExceed, BadgeExceed}) > 0 => exp_sum > rev_sum
            /\ said({ExpensesUnder80, BadgeUnder80}) > 0 =>
                  rev_sum > 0 /\ 10 * exp_sum < 8 * rev_sum
            /\ said({ExpensesExcellent}) > 0 => rev_sum > 0 /\ 10 * exp_sum < 7 * rev_sum
            /\ Count(insights, {ExpensesExcellent, ExpensesUnder80, ExpensesExceed}) <= 1
            /\ Count(achievements, {BadgeUnder80, BadgeExceed}) <= 1
            /\ rev_sum <= 0 =>
                  said({ExpensesExcellent, ExpensesUnder80, ExpensesExceed,
                        BadgeUnder80, BadgeExceed}) = 0

\* C8: with both revenue columns exactly one revenue comparison is shown;
\* 'outperforms' only when the own mean is strictly greater, 'industry revenue
\* is higher' only when the industry mean is strictly greater, 'expenses above
\* industry average' only when the own expense mean is strictly greater
\* (stated for tables that have rows, where every mean is a number).
C8_ComparisonsTruthful ==
    Ran /\ filtered_df.nrows > 0 =>
        /\ Has(filtered_df, "Your Revenue") /\ Has(filtered_df, "Industry Revenue") =>
              Count(insights, {Outperforms, IndustryHigher}) = 1
        /\ Count(insights, {Outperforms}) > 0 =>
              MeanGt(CellsOf("Your Revenue"), CellsOf("Industry Revenue"))
        /\ Count(insights, {IndustryHigher}) > 0 =>
              MeanGt(CellsOf("Industry Revenue"), CellsOf("Your Revenue"))
        /\ Count(insights, {ExpensesAboveIndustry}) > 0 =>
              MeanGt(CellsOf("Your Expenses"), CellsOf("Industry Expenses"))

\* ---- C9
MetricInsights ==
    {TrendUp, TrendDown, Outperforms, IndustryHigher, LowRevenue, ExpensesExcellent,
     ExpensesUnder80, ExpensesExceed, ExpensesBelowIndustry, ExpensesAboveIndustry,
     CustomersGrowing, CustomersDeclining, CustomersHigh, CustomersLow}

\* C9: dynamic_ai_insights never returns an empty list: the result has at
\* least one insight, and the fallback 'Upload more data ...' is in it if and
\* only if no metric insight was produced, and then it is the only element.
C9_InsightsNeverEmpty ==
    Ran =>
        /\ Len(insights) >= 1
        /\ Count(insights, {UploadMore}) > 0 <=> Count(insights, MetricInsights) = 0
        /\ Count(insights, {UploadMore}) > 0 => insights = <<UploadMore>>

\* a table without rows whose 'Customers' column is selected: no metric can
\* speak and the fallback is the only insight
C9_Witness ==
    /\ pc = "done"
    /\ filtered_df.nrows = 0
    /\ Has(filtered_df, "Customers")
    /\ insights = <<UploadMore>>

====
